---- MODULE Spec2Model ----
(***************************************************************************)
(* Model of goodtables.Inspector (src/goodtables/inspector.py): the check  *)
(* registry (__prepare_checks), the per-table inspection (__inspect_table) *)
(* and the concurrent orchestrator (inspect).                              *)
(***************************************************************************)
EXTENDS Integers, Sequences, FiniteSets, TLC

(***************************************************************************)
(* Bounds of the model.                                                    *)
(***************************************************************************)
MaxTables == 3
MaxRows == 3
MaxLimit == 3

(***************************************************************************)
(* Python values.                                                          *)
(***************************************************************************)
\* None, as the value of an optional attribute (a string never used as data)
None == "None"
\* None, as the value of 'row' and 'headers' (sequences): an option type,
\* <<>> is None and <<x>> is the value x
NoneSeq == <<>>
Some(x) == <<x>>
\* the zip_longest fill value marking an absent header, field or value
_FILLVALUE == "_FILLVALUE"

Min(a, b) == IF a <= b THEN a ELSE b
Max(a, b) == IF a >= b THEN a ELSE b

\* s[:n]
Slice(s, n) == SubSeq(s, 1, Min(n, Len(s)))

(***************************************************************************)
(* The check catalog (spec.json) and the selection policies.               *)
(***************************************************************************)
Check(code, type, context, requires, func) ==
    [code |-> code, type |-> type, context |-> context,
     requires |-> requires, func |-> func]

\* a catalog without dependencies
CatalogFlat ==
    << Check("io-error", "structure", "table", {}, TRUE),
       Check("blank-header", "structure", "head", {}, TRUE),
       Check("missing-value", "structure", "body", {}, TRUE),
       Check("duplicate-row", "structure", "body", {}, TRUE),
       Check("non-matching-header", "schema", "head", {}, TRUE),
       Check("non-castable-value", "schema", "body", {}, TRUE) >>

\* the same catalog with dependencies on earlier checks
CatalogDeps ==
    [i \in 1..Len(CatalogFlat) |->
        [CatalogFlat[i] EXCEPT !.requires =
            CASE CatalogFlat[i].code = "duplicate-row" -> {"missing-value"}
              [] CatalogFlat[i].code = "non-matching-header" -> {"blank-header"}
              [] CatalogFlat[i].code = "non-castable-value" ->
                    {"missing-value", "non-matching-header"}
              [] OTHER -> {}]]

\* a catalog listing a check before the check it requires
CatalogLate ==
    [i \in 1..Len(CatalogFlat) |->
        [CatalogFlat[i] EXCEPT !.requires =
            IF CatalogFlat[i].code = "blank-header"
            THEN {"missing-value"} ELSE {}]]

\* a catalog naming a check that has no executable in the checks module
CatalogNoFunc ==
    [i \in 1..Len(CatalogFlat) |->
        [CatalogFlat[i] EXCEPT !.func = (CatalogFlat[i].code # "duplicate-row")]]

Catalogs == {CatalogFlat, CatalogDeps, CatalogLate, CatalogNoFunc}

Codes == {CatalogFlat[i].code : i \in 1..Len(CatalogFlat)}

\* a selection policy: 'all', 'structure', 'schema', a dict code -> bool,
\* or anything else
Policy(kind, map) == [kind |-> kind, map |-> map]
EmptyMap == [c \in {} |-> TRUE]
DictPolicies(keys) ==
    {Policy("dict", m) : m \in UNION {[d -> BOOLEAN] : d \in SUBSET keys}}
NamedPolicies ==
    {Policy(k, EmptyMap) : k \in {"all", "structure", "schema", "other"}}

(***************************************************************************)
(* Inspector.__prepare_checks                                              *)
(***************************************************************************)
\* mutant: only the first catalog entry is looked up in the checks module
AllSupported_first(catalog) == catalog = <<>> \/ catalog[1].func

\* "Get all checks": every catalog entry needs an executable
AllSupported(catalog) == \A i \in 1..Len(catalog) : catalog[i].func

\* mutant: the negation is lost, default = True in config.values()
DictDefault_in(map) == TRUE \in {map[c] : c \in DOMAIN map}

\* "Custom checks": default = True not in config.values()
DictDefault(map) == ~(TRUE \in {map[c] : c \in DOMAIN map})

\* config.get(check['code'], default)
DictGet(map, code) == IF code \in DOMAIN map THEN map[code] ELSE DictDefault(map)

\* the filter by selection policy
SelectChecks(config, catalog) ==
    LET IsStructure(c) == c.type = "structure"
        IsSchema(c) == c.type = "schema"
        InDict(c) == DictGet(config.map, c.code)
    IN  CASE config.kind = "all" -> catalog
          [] config.kind = "structure" -> SelectSeq(catalog, IsStructure)
          [] config.kind = "schema" -> SelectSeq(catalog, IsSchema)
          [] config.kind = "dict" -> SelectSeq(catalog, InDict)
          [] OTHER -> <<>>

\* "Ensure requires": the loop over the selected checks; codes is the set of
\* the codes already passed; FALSE when a check's requires is not within it
\* mutant: requires is looked up among the codes of all the selected checks
EnsureRequiresFrom_all(checks, i, codes) ==
    \A k \in 1..Len(checks) :
        checks[k].requires \subseteq {checks[j].code : j \in 1..Len(checks)}

RECURSIVE EnsureRequiresFrom(_, _, _)
EnsureRequiresFrom(checks, i, codes) ==
    IF i > Len(checks) THEN TRUE
    ELSE IF ~(checks[i].requires \subseteq codes) THEN FALSE
    ELSE EnsureRequiresFrom(checks, i + 1, codes \cup {checks[i].code})

EnsureRequires(checks) == EnsureRequiresFrom(checks, 1, {})

\* the result of __prepare_checks: the resolved list, or the exception
PrepareChecks(config, catalog) ==
    IF ~AllSupported(catalog)
    THEN [error |-> "unsupported-check", checks |-> <<>>]
    ELSE IF config.kind \notin {"all", "structure", "schema", "dict"}
    THEN [error |-> "unsupported-config", checks |-> <<>>]
    ELSE IF ~EnsureRequires(SelectChecks(config, catalog))
    THEN [error |-> "requires", checks |-> <<>>]
    ELSE [error |-> "none", checks |-> SelectChecks(config, catalog)]

\* Inspector.__filter_checks
FilterChecks(checks, type, context) ==
    LET Keep(c) == /\ (type # None => c.type = type)
                   /\ (context # None => c.context = context)
    IN  SelectSeq(checks, Keep)

(***************************************************************************)
(* Tables: the reader/stream and schema capabilities as the inspector      *)
(* sees them.  failAt names the statement of the "Table checks" try block  *)
(* that raises (exc is the exception), "none" when none does.  The stream   *)
(* of an endless table yields its rows again and again, at positions       *)
(* 1, 2, 3, ...                                                            *)
(***************************************************************************)
Table(failAt, exc, headers, fields, rows) ==
    [failAt |-> failAt, exc |-> exc, headers |-> headers,
     fields |-> fields, rows |-> rows, endless |-> FALSE]

\* the table with a stream that never ends
Endless(t) == [t EXCEPT !.endless = TRUE]

\* stream.iter: whether the stream yields a row at position n, and the row
HasRow(t, n) == n <= Len(t.rows) \/ (t.endless /\ t.rows # <<>>)

RowAt(t, n) == t.rows[((n - 1) % Len(t.rows)) + 1]

\* the type of a schema field, by its name
FieldType(field) == IF field = "id" THEN "integer" ELSE "string"

\* field.cast_value(value) raises for a non-numeric value of an integer field
Castable(field, value) == FieldType(field) = "integer" => value \in {"1", ""}

(***************************************************************************)
(* Errors.  A check yields row-number and column-number (0 stands for      *)
(* None); the inspector adds 'row' and 'code'.                             *)
(***************************************************************************)
Error(code, row, rowNumber, colNumber) ==
    [code |-> code, row |-> row, rowNumber |-> rowNumber,
     colNumber |-> colNumber]

(***************************************************************************)
(* Check executables.                                                      *)
(***************************************************************************)
\* table context: func(exception) -> errors
TableFunc(code, exception) ==
    IF code = "io-error" /\ exception = "IOError"
    THEN <<Error(code, NoneSeq, 0, 0)>>
    ELSE <<>>

\* head context: func(columns, sample) -> errors, may remove columns
HeadFunc(code, columns) ==
    LET Blank(c) == c.header = ""
        Mismatch(c) == /\ c.header # _FILLVALUE
                       /\ c.field \notin {_FILLVALUE, None}
                       /\ c.header # c.field
        Bad(c) == CASE code = "blank-header" -> Blank(c)
                    [] code = "non-matching-header" -> Mismatch(c)
                    [] OTHER -> FALSE
        Good(c) == ~Bad(c)
        bad == SelectSeq(columns, Bad)
    IN  [errors |-> [i \in 1..Len(bad) |-> Error(code, NoneSeq, 0, bad[i].number)],
         columns |-> SelectSeq(columns, Good)]

\* the values of the cells that have one
CellValues(cells) ==
    LET HasValue(c) == c.value # _FILLVALUE
        with == SelectSeq(cells, HasValue)
    IN  [i \in 1..Len(with) |-> with[i].value]

\* body context: func(cells, state) -> errors, may remove cells and change
\* the state
BodyFunc(code, cells, state) ==
    LET Missing(c) == c.value = _FILLVALUE
        NonCastable(c) == /\ c.header # _FILLVALUE
                          /\ c.field \notin {_FILLVALUE, None}
                          /\ c.value # _FILLVALUE
                          /\ ~Castable(c.field, c.value)
        Bad(c) == CASE code = "missing-value" -> Missing(c)
                    [] code = "non-castable-value" -> NonCastable(c)
                    [] OTHER -> FALSE
        Good(c) == ~Bad(c)
        bad == SelectSeq(cells, Bad)
    IN  IF code = "duplicate-row"
        THEN IF CellValues(cells) \in state
             THEN [errors |-> <<Error(code, NoneSeq, cells[1].row_number, 0)>>,
                   cells |-> <<>>, state |-> state]
             ELSE [errors |-> <<>>, cells |-> cells,
                   state |-> state \cup {CellValues(cells)}]
        ELSE [errors |-> [i \in 1..Len(bad) |->
                            Error(code, NoneSeq, bad[i].row_number,
                                  bad[i].col_number)],
              cells |-> SelectSeq(cells, Good), state |-> state]

(***************************************************************************)
(* Inspector.__inspect_table: the local variables of one call and the      *)
(* steps of the call.                                                      *)
(***************************************************************************)
\* "Prepare vars"; unbound holds the names of the locals not yet assigned.
\* History of the call, read by no step: cells is the cell model of the last
\* row as built, headCalls and bodyCalls the invocations of the head and
\* body checks with their arguments, rowErrors the length of the error list
\* after each row checked, collected the error list before the cut
NewCall ==
    [pc |-> "open", errors |-> <<>>, headers |-> NoneSeq, row_number |-> 0,
     fatal_error |-> FALSE, schema |-> NoneSeq,
     unbound |-> {"stream", "schema", "sample"},
     columns |-> <<>>, cells |-> <<>>, states |-> [c \in {} |-> {}], next |-> 1,
     streamOpen |-> FALSE, exc |-> None,
     headCalls |-> <<>>, bodyCalls |-> <<>>, rowErrors |-> <<>>,
     collected |-> <<>>,
     report |-> [valid |-> FALSE, error_count |-> 0, row_count |-> 0,
                 headers |-> NoneSeq, errors |-> <<>>]]

\* the errors of the table checks for the exception, in check order
RECURSIVE TableErrors(_, _)
TableErrors(checks, exception) ==
    IF checks = <<>> THEN <<>>
    ELSE [i \in 1..Len(TableFunc(Head(checks).code, exception)) |->
             [TableFunc(Head(checks).code, exception)[i]
                 EXCEPT !.row = NoneSeq, !.code = Head(checks).code]]
         \o TableErrors(Tail(checks), exception)

\* mutant: the schema is requested whatever checks are selected
OpenFails_always(t, checks) == t.failAt # "none"

\* whether the try block of "Table checks" raises for the table
OpenFails(t, checks) ==
    CASE t.failAt = "none" -> FALSE
      [] t.failAt = "schema" -> FilterChecks(checks, "schema", None) # <<>>
      [] OTHER -> TRUE

\* mutant: the exception is re-raised when no table check is selected
Reraise_unchecked(errors, tableChecks) == tableChecks = <<>>

\* "if not errors: raise"
Reraise(errors, tableChecks) == errors = <<>>

\* "Table checks": the try block and its except clause
StepOpen(w, t, checks) ==
    LET needSchema == FilterChecks(checks, "schema", None) # <<>>
        tableChecks == FilterChecks(checks, None, "table")
        errors == w.errors \o TableErrors(tableChecks, t.exc)
        reraise == Reraise(errors, tableChecks)
    IN  IF ~OpenFails(t, checks)
        THEN [w EXCEPT !.pc = "columns", !.streamOpen = TRUE, !.unbound = {},
                       !.schema = IF needSchema THEN Some(t.fields) ELSE NoneSeq,
                       !.headers = Some(t.headers)]
        ELSE [w EXCEPT
                !.streamOpen = (t.failAt # "open"),
                !.unbound = CASE t.failAt = "open" -> {"stream", "schema", "sample"}
                              [] OTHER -> {"sample"},
                !.schema = IF t.failAt \in {"headers", "sample"} /\ needSchema
                           THEN Some(t.fields) ELSE NoneSeq,
                !.headers = IF t.failAt = "sample"
                            THEN Some(t.headers) ELSE NoneSeq,
                !.fatal_error = TRUE,
                !.errors = errors,
                !.exc = IF reraise THEN t.exc ELSE None,
                !.pc = IF reraise THEN "raised" ELSE "columns"]

\* mutant: zip in place of zip_longest, the longer side is cut
AlignColumns_zip(headers, fields) ==
    [i \in 1..Min(Len(headers), Len(fields)) |->
        [number |-> i, header |-> headers[i], field |-> fields[i]]]

\* zip_longest(headers, fields): the column model
AlignColumns(headers, fields) ==
    [i \in 1..Max(Len(headers), Len(fields)) |->
        [number |-> i,
         header |-> IF i <= Len(headers) THEN headers[i] ELSE _FILLVALUE,
         field |-> IF i <= Len(fields) THEN fields[i] ELSE _FILLVALUE]]

\* "Prepare columns": len(headers) raises when headers is None
StepColumns(w) ==
    IF w.headers = NoneSeq
    THEN [w EXCEPT !.pc = "raised", !.exc = "TypeError"]
    ELSE IF "schema" \in w.unbound
    THEN [w EXCEPT !.pc = "raised", !.exc = "UnboundLocalError"]
    ELSE LET headers == w.headers[1]
             fields == IF w.schema # NoneSeq THEN w.schema[1]
                       ELSE [i \in 1..Len(headers) |-> None]
         IN  [w EXCEPT !.columns = AlignColumns(headers, fields),
                       !.pc = "head"]

\* mutant: every head check is passed a copy of the original column list
RECURSIVE RunHeadChecks_copy(_, _)
RunHeadChecks_copy(checks, columns) ==
    IF checks = <<>> THEN [errors |-> <<>>, columns |-> columns, calls |-> <<>>]
    ELSE LET r == HeadFunc(Head(checks).code, columns)
             rest == RunHeadChecks_copy(Tail(checks), columns)
             Kept(c) == \E k \in 1..Len(rest.columns) : rest.columns[k] = c
         IN  [errors |-> [i \in 1..Len(r.errors) |->
                            [r.errors[i] EXCEPT !.row = NoneSeq,
                                                !.code = Head(checks).code]]
                         \o rest.errors,
              columns |-> SelectSeq(r.columns, Kept),
              calls |-> <<[code |-> Head(checks).code, columns |-> columns]>>
                        \o rest.calls]

\* the head checks in order on the one column list
RECURSIVE RunHeadChecks(_, _)
RunHeadChecks(checks, columns) ==
    IF checks = <<>> THEN [errors |-> <<>>, columns |-> columns, calls |-> <<>>]
    ELSE LET r == HeadFunc(Head(checks).code, columns)
             rest == RunHeadChecks(Tail(checks), r.columns)
         IN  [errors |-> [i \in 1..Len(r.errors) |->
                            [r.errors[i] EXCEPT !.row = NoneSeq,
                                                !.code = Head(checks).code]]
                         \o rest.errors,
              columns |-> rest.columns,
              calls |-> <<[code |-> Head(checks).code, columns |-> columns]>>
                        \o rest.calls]

\* mutant: the new errors are put in front of the list
Extend_front(errors, new) == new \o errors

\* errors.append(error) for each error yielded, in the order yielded
Extend(errors, new) == errors \o new

\* "Head checks"
StepHead(w, checks) ==
    IF w.fatal_error THEN [w EXCEPT !.pc = "body"]
    ELSE LET r == RunHeadChecks(FilterChecks(checks, None, "head"), w.columns)
         IN  [w EXCEPT !.errors = Extend(w.errors, r.errors),
                       !.columns = r.columns, !.headCalls = r.calls,
                       !.pc = "body"]

\* column['header'] or column['field'] raises KeyError for a column that
\* lacks the key
CellKeyError(columns, row) ==
    \E i \in 1..Len(columns) :
        columns[i].header = _FILLVALUE \/ columns[i].field = _FILLVALUE

\* zip_longest(columns, row): the cell model of a row
AlignCells(columns, row, row_number) ==
    [i \in 1..Max(Len(columns), Len(row)) |->
        [row_number |-> row_number, col_number |-> i,
         header |-> IF i <= Len(columns) THEN columns[i].header ELSE _FILLVALUE,
         field |-> IF i <= Len(columns) THEN columns[i].field ELSE _FILLVALUE,
         value |-> IF i <= Len(row) THEN row[i] ELSE _FILLVALUE]]

\* mutant: every invocation is passed a new empty mapping
SetDefault_fresh(states, code) == (code :> {}) @@ states

\* states.setdefault(code, {})
SetDefault(states, code) ==
    IF code \in DOMAIN states THEN states ELSE states @@ (code :> {})

\* mutant: "if not cells: break" is left out
RECURSIVE RunBodyChecks_all(_, _, _, _)
RunBodyChecks_all(checks, cells, states, row) ==
    IF checks = <<>>
    THEN [errors |-> <<>>, states |-> states, calls |-> <<>>]
    ELSE LET code == Head(checks).code
             r == IF cells = <<>>
                  THEN [errors |-> <<>>, cells |-> <<>>,
                        state |-> SetDefault(states, code)[code]]
                  ELSE BodyFunc(code, cells, SetDefault(states, code)[code])
             rest == RunBodyChecks_all(Tail(checks), r.cells,
                        [SetDefault(states, code) EXCEPT ![code] = r.state], row)
         IN  [errors |-> [i \in 1..Len(r.errors) |->
                            [r.errors[i] EXCEPT !.row = Some(row), !.code = code]]
                         \o rest.errors,
              states |-> rest.states,
              calls |-> <<[code |-> code, row |-> row, cells |-> cells,
                           state |-> SetDefault(states, code)[code],
                           out |-> r.state, left |-> r.cells,
                           made |-> Len(r.errors)]>>
                        \o rest.calls]

\* the body checks of one row in order, until the cell list is empty
RECURSIVE RunBodyChecks(_, _, _, _)
RunBodyChecks(checks, cells, states, row) ==
    IF checks = <<>> \/ cells = <<>>
    THEN [errors |-> <<>>, states |-> states, calls |-> <<>>]
    ELSE LET code == Head(checks).code
             r == BodyFunc(code, cells, SetDefault(states, code)[code])
             rest == RunBodyChecks(Tail(checks), r.cells,
                        [SetDefault(states, code) EXCEPT ![code] = r.state], row)
         IN  [errors |-> [i \in 1..Len(r.errors) |->
                            [r.errors[i] EXCEPT !.row = Some(row), !.code = code]]
                         \o rest.errors,
              states |-> rest.states,
              calls |-> <<[code |-> code, row |-> row, cells |-> cells,
                           state |-> SetDefault(states, code)[code],
                           out |-> r.state, left |-> r.cells,
                           made |-> Len(r.errors)]>>
                        \o rest.calls]

\* mutant: the row at the limit is still processed
RowLimitReached_after(row_number, limit) == row_number > limit

\* "if row_number >= self.__row_limit: break"
RowLimitReached(row_number, limit) == row_number >= limit

\* mutant: the error limit never ends the loop
ErrorLimitReached_never(errors, limit) == FALSE

\* "if len(errors) >= self.__error_limit: break"
ErrorLimitReached(errors, limit) == Len(errors) >= limit

\* "Body checks": one iteration of the loop over stream.iter, or its end;
\* leaving the with block closes the stream
StepRow(w, t, checks, row_limit, error_limit) ==
    IF w.fatal_error THEN [w EXCEPT !.pc = "compose"]
    ELSE IF ~HasRow(t, w.next)
    THEN [w EXCEPT !.pc = "compose", !.streamOpen = FALSE]
    ELSE IF RowLimitReached(w.next, row_limit)
    THEN [w EXCEPT !.row_number = w.next, !.pc = "compose",
                   !.streamOpen = FALSE]
    ELSE IF CellKeyError(w.columns, RowAt(t, w.next))
    THEN [w EXCEPT !.row_number = w.next, !.pc = "raised",
                   !.exc = "KeyError", !.streamOpen = FALSE]
    ELSE LET row == RowAt(t, w.next)
             r == RunBodyChecks(FilterChecks(checks, None, "body"),
                                AlignCells(w.columns, row, w.next),
                                w.states, row)
             errors == Extend(w.errors, r.errors)
         IN  [w EXCEPT !.row_number = w.next, !.errors = errors,
                       !.cells = AlignCells(w.columns, row, w.next),
                       !.states = r.states, !.next = w.next + 1,
                       !.bodyCalls = w.bodyCalls \o
                           [k \in 1..Len(r.calls) |->
                               [code |-> r.calls[k].code, row_number |-> w.next,
                                cells |-> r.calls[k].cells,
                                state |-> r.calls[k].state,
                                out |-> r.calls[k].out,
                                left |-> r.calls[k].left,
                                made |-> r.calls[k].made]],
                       !.rowErrors = Append(w.rowErrors, Len(errors)),
                       !.pc = IF ErrorLimitReached(errors, error_limit)
                              THEN "compose" ELSE "body",
                       !.streamOpen = ~ErrorLimitReached(errors, error_limit)]

\* mutant: the errors are reported as collected
Capped_not(errors, limit) == errors

\* "errors = errors[:self.__error_limit]"
Capped(errors, limit) == Slice(errors, limit)

\* "Compose report"
StepCompose(w, error_limit) ==
    LET errors == Capped(w.errors, error_limit)
    IN  [w EXCEPT !.pc = "done", !.errors = errors, !.collected = w.errors,
                  !.report = [valid |-> (errors = <<>>),
                              error_count |-> Len(errors),
                              row_count |-> w.row_number,
                              headers |-> w.headers,
                              errors |-> errors]]

\* one step of a call
StepCall(w, t, checks, row_limit, error_limit) ==
    CASE w.pc = "open" -> StepOpen(w, t, checks)
      [] w.pc = "columns" -> StepColumns(w)
      [] w.pc = "head" -> StepHead(w, checks)
      [] w.pc = "body" -> StepRow(w, t, checks, row_limit, error_limit)
      [] w.pc = "compose" -> StepCompose(w, error_limit)
      [] OTHER -> w

(***************************************************************************)
(* The state: the inputs of one Inspector and one inspect call, and the    *)
(* position of the call and of its workers.                                *)
(***************************************************************************)
VARIABLES
    catalog,        \* spec.json: the catalog of checks
    config,         \* the checks argument of Inspector()
    table_limit, row_limit, error_limit,
    profile,        \* the profile argument of inspect
    dataset,        \* the items the profile function yields, in order
    forever,        \* whether it yields them again and again, without end
    ipc,            \* "new", "ready", "tables", "tasks", "collect",
                    \* "returned" or "raised"
    checks,         \* self.__checks
    requested,      \* the number of items asked of the dataset iterator
    tables, extras, \* the lists built by inspect
    tasks,          \* one __inspect_table call per table
    reports,        \* the reports collected so far
    result,         \* the aggregate report, once returned
    exc             \* the exception inspect or Inspector() raised

vars == <<catalog, config, table_limit, row_limit, error_limit, profile,
          dataset, forever, ipc, checks, requested, tables, extras, tasks, reports,
          result, exc>>

inputs == <<catalog, config, table_limit, row_limit, error_limit, profile,
            dataset, forever>>

\* Inspector.__init__ defaults
DefaultTableLimit == 10
DefaultRowLimit == 1000
DefaultErrorLimit == 1000

Profiles == {"table", "datapackage", "ckan"}

NoResult == [valid |-> FALSE, table_count |-> 0, tables |-> <<>>]

\* Inspector(checks, table_limit, row_limit, error_limit)
Construct ==
    /\ ipc = "new"
    /\ LET r == PrepareChecks(config, catalog)
       IN  /\ checks' = r.checks
           /\ ipc' = IF r.error = "none" THEN "ready" ELSE "raised"
           /\ exc' = IF r.error = "none" THEN None ELSE r.error
    /\ UNCHANGED <<inputs, requested, tables, extras, tasks, reports, result>>

\* mutant: the profile name is not looked up before the profile is called
GetProfile_unchecked ==
    /\ ipc = "ready"
    /\ ipc' = "tables"
    /\ UNCHANGED <<inputs, checks, requested, tables, extras, tasks, reports,
                   result, exc>>

\* inspect: "Get profile function" and the call of the profile function
GetProfile ==
    /\ ipc = "ready"
    /\ ipc' = IF profile \in Profiles THEN "tables" ELSE "raised"
    /\ exc' = IF profile \in Profiles THEN None ELSE "unsupported-profile"
    /\ UNCHANGED <<inputs, checks, requested, tables, extras, tasks, reports,
                   result>>

\* mutant: one table more than the limit is taken
TableLimitReached_after(count, limit) == count > limit

\* "if count >= self.__table_limit: break"
TableLimitReached(count, limit) == count >= limit

\* next(dataset): whether the dataset yields an n-th item, and the item
HasItem(n) == n <= Len(dataset) \/ (forever /\ dataset # <<>>)

ItemAt(n) == dataset[((n - 1) % Len(dataset)) + 1]

\* inspect: "Get tables/extras", one iteration of the loop over the dataset
\* (or the end of the dataset)
GetTable ==
    /\ ipc = "tables"
    /\ requested' = requested + 1
    /\ IF ~HasItem(requested + 1)
       THEN /\ ipc' = "tasks"
            /\ UNCHANGED <<tables, extras>>
       ELSE /\ tables' = Append(tables, ItemAt(requested + 1).table)
            /\ extras' = Append(extras, ItemAt(requested + 1).extra)
            /\ ipc' = IF TableLimitReached(requested + 1, table_limit)
                      THEN "tasks" ELSE "tables"
    /\ UNCHANGED <<inputs, checks, tasks, reports, result, exc>>

\* inspect: "Create tasks"; ThreadPool(processes=0) raises ValueError
CreateTasks ==
    /\ ipc = "tasks"
    /\ IF Len(tables) < 1
       THEN /\ ipc' = "raised"
            /\ exc' = "ValueError"
            /\ UNCHANGED tasks
       ELSE /\ ipc' = "collect"
            /\ tasks' = [i \in 1..Len(tables) |-> NewCall]
            /\ UNCHANGED exc
    /\ UNCHANGED <<inputs, checks, requested, tables, extras, reports, result>>

\* mutant: "states = {}" is left out, the body phase of a call starts with
\* the check states the call before it has left
Work_stale(i) ==
    /\ tasks[i].pc \notin {"done", "raised"}
    /\ LET w == IF i > 1 /\ tasks[i].pc = "body" /\ tasks[i].next = 1
                THEN [tasks[i] EXCEPT !.states = tasks[i - 1].states]
                ELSE tasks[i]
       IN  tasks' = [tasks EXCEPT ![i] =
                        StepCall(w, tables[i], checks, row_limit, error_limit)]
    /\ UNCHANGED <<inputs, ipc, checks, requested, tables, extras, reports,
                   result, exc>>

\* mutant: the check states are one map shared by all the calls
Work_shared(i) ==
    /\ tasks[i].pc \notin {"done", "raised"}
    /\ LET w == StepCall([tasks[i] EXCEPT !.states = tasks[1].states],
                         tables[i], checks, row_limit, error_limit)
       IN  tasks' = [[tasks EXCEPT ![i] = w] EXCEPT ![1].states = w.states]
    /\ UNCHANGED <<inputs, ipc, checks, requested, tables, extras, reports,
                   result, exc>>

\* a pool thread runs one step of the call for table i
Work(i) ==
    /\ tasks[i].pc \notin {"done", "raised"}
    /\ tasks' = [tasks EXCEPT ![i] =
                    StepCall(tasks[i], tables[i], checks, row_limit, error_limit)]
    /\ UNCHANGED <<inputs, ipc, checks, requested, tables, extras, reports,
                   result, exc>>

\* report.update(extra)
Update(report, extra) ==
    [valid |-> report.valid, error_count |-> report.error_count,
     row_count |-> report.row_count, headers |-> report.headers,
     errors |-> report.errors, extra |-> extra]

\* mutant: the metadata is taken from the end of the list
ExtraOf_last(es, k) == es[Len(es) + 1 - k]

\* "for task, extra in zip(tasks, extras)": the metadata paired with task k
ExtraOf(es, k) == es[k]

\* inspect: "Collect reports", task.get() of the next task in order
Collect ==
    /\ ipc = "collect"
    /\ Len(reports) < Len(tasks)
    /\ LET k == Len(reports) + 1
       IN  /\ tasks[k].pc \in {"done", "raised"}
           /\ IF tasks[k].pc = "raised"
              THEN /\ ipc' = "raised"
                   /\ exc' = tasks[k].exc
                   /\ UNCHANGED reports
              ELSE /\ reports' = Append(reports,
                                        Update(tasks[k].report, ExtraOf(extras, k)))
                   /\ UNCHANGED <<ipc, exc>>
    /\ UNCHANGED <<inputs, checks, requested, tables, extras, tasks, result>>

\* mutant: any() in place of all()
AllValid_any(rs) == \E i \in 1..Len(rs) : rs[i].valid

\* "all(report['valid'] for report in reports)"
AllValid(rs) == \A i \in 1..Len(rs) : rs[i].valid

\* inspect: "Compose report"
Compose ==
    /\ ipc = "collect"
    /\ Len(reports) = Len(tasks)
    /\ result' = [valid |-> AllValid(reports),
                  table_count |-> Len(tables),
                  tables |-> reports]
    /\ ipc' = "returned"
    /\ UNCHANGED <<inputs, checks, requested, tables, extras, tasks, reports,
                   exc>>

Next ==
    \/ Construct
    \/ GetProfile
    \/ GetTable
    \/ CreateTasks
    \/ \E i \in 1..Len(tasks) : Work(i)
    \/ Collect
    \/ Compose

(***************************************************************************)
(* Inputs.                                                                 *)
(***************************************************************************)
\* the sequences over S of length at most n
Seqs(S, n) == UNION {[1..k -> S] : k \in 0..n}

HeadersGood == <<"id", "name">>
HeadersBlank == <<"id", "">>
FieldsGood == <<"id", "name">>
FieldsShort == <<"id">>
FieldsLong == <<"id", "name", "age">>
HeadersOnlyBlank == <<"">>

RowGood == <<"1", "x">>
RowShort == <<"1">>
RowText == <<"x", "x">>
RowKinds == {RowGood, RowShort, RowText}
RowEmpty == <<>>

FailPoints == {"open", "schema", "headers", "sample"}
Exceptions == {"IOError", "RuntimeError"}

\* the tables of the single-table specification
TableInputs ==
    {Table("none", None, h, f, rows) :
        h \in {HeadersGood, HeadersBlank},
        f \in {FieldsGood, FieldsShort, FieldsLong},
        rows \in Seqs(RowKinds, MaxRows)}
    \cup {Table(fa, e, HeadersGood, FieldsGood, <<RowShort>>) :
            fa \in FailPoints, e \in Exceptions}
    \cup {Table("none", None, HeadersOnlyBlank, FieldsShort, rows) :
            rows \in {<<RowEmpty>>, <<RowEmpty, RowShort>>}}

\* the tables of the multi-table specification
TableErrs == Table("none", None, HeadersGood, FieldsGood, <<RowShort, RowText>>)
TableFail == Table("open", "IOError", HeadersGood, FieldsGood, <<RowGood>>)
TableDups == Table("none", None, HeadersBlank, FieldsGood, <<RowGood, RowGood>>)
FewTables == {TableErrs, TableFail, TableDups}

\* the items a profile yields: the i-th carries the metadata i
Datasets(T, n) ==
    {[i \in 1..Len(ts) |-> [table |-> ts[i], extra |-> i]] : ts \in Seqs(T, n)}

PolicyAll == Policy("all", EmptyMap)
PolicyNoTable == Policy("dict", "io-error" :> FALSE)
PolicyStructure == Policy("structure", EmptyMap)
PolicyBody == Policy("dict", ("io-error" :> FALSE) @@ ("blank-header" :> FALSE)
                             @@ ("non-matching-header" :> FALSE))

Limits(default) == 0..MaxLimit \cup {default}

InitCall ==
    /\ ipc = "new"
    /\ forever = FALSE
    /\ checks = <<>>
    /\ requested = 0
    /\ tables = <<>>
    /\ extras = <<>>
    /\ tasks = <<>>
    /\ reports = <<>>
    /\ result = NoResult
    /\ exc = None

\* several tables inspected concurrently
Init ==
    /\ catalog = CatalogFlat
    /\ config \in {PolicyAll, PolicyNoTable}
    /\ table_limit \in Limits(DefaultTableLimit)
    /\ row_limit \in {1, 2, DefaultRowLimit}
    /\ error_limit \in {1, DefaultErrorLimit}
    /\ profile = "datapackage"
    /\ dataset \in Datasets(FewTables, MaxTables)
    /\ InitCall

Spec == Init /\ [][Next]_vars

\* one table, every limit
InitTable ==
    /\ catalog = CatalogFlat
    /\ config \in {PolicyAll, PolicyNoTable, PolicyStructure, PolicyBody}
    /\ table_limit = DefaultTableLimit
    /\ row_limit \in Limits(DefaultRowLimit)
    /\ error_limit \in Limits(DefaultErrorLimit)
    /\ profile = "table"
    /\ dataset \in Datasets(TableInputs, 1)
    /\ InitCall

SpecTable == InitTable /\ [][Next]_vars

\* every catalog and selection policy, one table
InitChecks ==
    /\ catalog \in Catalogs
    /\ config \in NamedPolicies \cup DictPolicies(Codes \cup {"unknown-check"})
    /\ table_limit = DefaultTableLimit
    /\ row_limit = DefaultRowLimit
    /\ error_limit = DefaultErrorLimit
    /\ profile \in {"table", "xml"}
    /\ dataset \in Datasets({TableErrs}, 1)
    /\ InitCall

SpecChecks == InitChecks /\ [][Next]_vars

\* tables with streams that never end, in datasets that may never end, under
\* small limits; the pool threads and the inspect call keep running
LiveTables ==
    {Endless(Table("none", None, HeadersGood, f, rows)) :
        f \in {FieldsGood, FieldsLong}, rows \in {<<RowGood>>, <<RowShort, RowText>>}}

InitLive ==
    /\ catalog = CatalogFlat
    /\ config = PolicyAll
    /\ table_limit \in 0..(MaxTables - 1)
    /\ row_limit \in 0..MaxLimit
    /\ error_limit \in {1, DefaultErrorLimit}
    /\ profile = "datapackage"
    /\ dataset \in Datasets(LiveTables, MaxTables - 1)
    /\ forever \in BOOLEAN
    /\ ipc = "new"
    /\ checks = <<>>
    /\ requested = 0
    /\ tables = <<>>
    /\ extras = <<>>
    /\ tasks = <<>>
    /\ reports = <<>>
    /\ result = NoResult
    /\ exc = None

SpecLive == InitLive /\ [][Next]_vars /\ WF_vars(Next)

(***************************************************************************)
(* The sequential inspection of one table, as when it is inspected alone.  *)
(***************************************************************************)
RECURSIVE RunCall(_, _, _, _, _)
RunCall(w, t, cs, rl, el) ==
    IF w.pc \in {"done", "raised"} THEN w
    ELSE RunCall(StepCall(w, t, cs, rl, el), t, cs, rl, el)

InspectTable(t, cs, rl, el) == RunCall(NewCall, t, cs, rl, el)

(***************************************************************************)
(* Properties.                                                             *)
(***************************************************************************)
ConfigErrors == {"unsupported-check", "unsupported-config", "requires"}

\* Inspector() returned an inspector
Constructed == ipc # "new" /\ ~(ipc = "raised" /\ exc \in ConfigErrors)

\* Inspector() raised
Rejected == ipc = "raised" /\ exc \in ConfigErrors

\* the codes of the checks before position i
CodesBefore(cs, i) == {cs[j].code : j \in 1..(i - 1)}

\* C1: once the Inspector is constructed, every check of the resolved list
\* has all its requires among the codes strictly before it; a selection that
\* breaks this is never constructed: Inspector() raises, and no table is
\* taken or inspected.
C1_RequiresPrecede ==
    /\ Constructed =>
          \A i \in 1..Len(checks) : checks[i].requires \subseteq CodesBefore(checks, i)
    /\ (/\ ipc # "new"
        /\ AllSupported(catalog)
        /\ config.kind \in {"all", "structure", "schema", "dict"}
        /\ \E i \in 1..Len(SelectChecks(config, catalog)) :
              ~(SelectChecks(config, catalog)[i].requires
                    \subseteq CodesBefore(SelectChecks(config, catalog), i)))
       => Rejected /\ exc = "requires" /\ requested = 0 /\ tasks = <<>>

\* C1 witness: an inspector built from a mapping policy whose resolved list
\* has a check with requires has returned a report
C1_Witness ==
    /\ ipc = "returned"
    /\ config.kind = "dict"
    /\ \E i \in 1..Len(checks) : Cardinality(checks[i].requires) = 2

\* the catalog checks of the resolved list
Selected(c) == \E i \in 1..Len(checks) : checks[i] = c

\* C2: with a mapping policy, a listed check is selected iff its value is
\* true; an unlisted check is excluded if the mapping has an explicit true
\* value and included otherwise; the empty mapping selects every check.
C2_MappingSelection ==
    (Constructed /\ config.kind = "dict") =>
        /\ \A i \in 1..Len(catalog) :
              LET code == catalog[i].code
              IN  Selected(catalog[i]) <=>
                    IF code \in DOMAIN config.map THEN config.map[code]
                    ELSE ~(\E k \in DOMAIN config.map : config.map[k])
        /\ (DOMAIN config.map = {} => checks = catalog)

\* C2 witness: a constructed inspector whose mapping has a true value, a
\* false value and leaves a catalog code unlisted
C2_Witness ==
    /\ ipc = "ready"
    /\ config.kind = "dict"
    /\ \E a, b \in DOMAIN config.map : config.map[a] /\ ~config.map[b]
    /\ \E i \in 1..Len(catalog) : catalog[i].code \notin DOMAIN config.map
    /\ checks # <<>>

\* inspect has returned or raised
Finished == ipc \in {"returned", "raised"}

TableChecks == FilterChecks(checks, None, "table")

\* the inspection of the i-th table of the dataset on its own
Alone(i) == InspectTable(dataset[i].table, checks, row_limit, error_limit)

\* C3 (as claimed): when table 2 of 3 fails in stream.open() and a selected
\* table check yields one error for it, inspect returns a report where
\* table 2 is invalid with exactly one error and tables 1 and 3 are as when
\* inspected without the failure.
C3_FailedTableReported ==
    (/\ Finished
     /\ Len(dataset) = 3
     /\ table_limit >= 3
     /\ dataset[1].table.failAt = "none"
     /\ dataset[2].table.failAt = "open"
     /\ dataset[3].table.failAt = "none"
     /\ Len(TableErrors(TableChecks, dataset[2].table.exc)) = 1)
    => /\ ipc = "returned"
       /\ ~result.tables[2].valid
       /\ Len(result.tables[2].errors) = 1
       /\ \A i \in {1, 3} :
             result.tables[i] = Update(Alone(i).report, dataset[i].extra)

\* the single table whose Opening phase failed, once inspect has ended
OpenFailed ==
    /\ Finished
    /\ Len(dataset) = 1
    /\ OpenFails(dataset[1].table, checks)

ErrorsUpTo(i, n) ==
    LET UpTo(e) == e.rowNumber <= n
    IN  SelectSeq(InspectTable(dataset[i].table, checks, DefaultRowLimit,
                               error_limit).report.errors, UpTo)

C6_RowsUpToLimitChecked ==
    (/\ ipc = "returned"
     /\ row_limit >= 1
     /\ error_limit = DefaultErrorLimit
     /\ Len(dataset) = 1
     /\ InspectTable(dataset[1].table, checks, DefaultRowLimit,
                     error_limit).pc = "done")
    => result.tables[1].errors = ErrorsUpTo(1, row_limit)

\* the errors of the i-th table when it is inspected without an error limit
Unlimited(i) ==
    InspectTable(dataset[i].table, checks, row_limit, DefaultErrorLimit)

\* C7: with error_limit M >= 1 the reported errors are the first
\* min(M, len(K)) errors of K, the errors of the table without an error
\* limit, in the same order; there are M of them exactly when K has at
\* least M.
C7_ErrorLimitPrefix ==
    (ipc = "returned" /\ error_limit >= 1) =>
        \A i \in 1..Len(result.tables) :
            /\ Unlimited(i).pc = "done"
            /\ result.tables[i].errors =
                  Slice(Unlimited(i).report.errors, error_limit)
            /\ result.tables[i].error_count = Len(result.tables[i].errors)
            /\ (Len(result.tables[i].errors) = error_limit)
                  <=> (Len(Unlimited(i).report.errors) >= error_limit)

\* C7 witness: a report cut to M errors of a table that yields more than M,
\* whose streaming stopped before the last row
C7_Witness ==
    /\ ipc = "returned"
    /\ error_limit >= 1
    /\ Len(dataset) = 1
    /\ Len(result.tables[1].errors) = error_limit
    /\ Len(Unlimited(1).report.errors) > error_limit
    /\ result.tables[1].row_count < Unlimited(1).report.row_count

\* the loop over the dataset has ended
TablesTaken ==
    \/ ipc \in {"tasks", "collect", "returned"}
    \/ ipc = "raised" /\ exc \notin ConfigErrors \cup {"unsupported-profile"}

\* C8: with table_limit L >= 1 inspect never asks the dataset for more than
\* L items, takes exactly the first min(L, n) of its n items, inspects only
\* those and reports table-count min(L, n).
C8_TableLimit ==
    table_limit >= 1 =>
        LET m == Min(table_limit, Len(dataset))
        IN  /\ requested <= table_limit
            /\ Len(tables) = Min(requested, Len(dataset))
            /\ TablesTaken =>
                  /\ tables = [i \in 1..m |-> dataset[i].table]
                  /\ extras = [i \in 1..m |-> dataset[i].extra]
            /\ Len(tasks) \in {0, m}
            /\ ipc = "returned" =>
                  /\ result.table_count = m
                  /\ Len(result.tables) = m

\* C8 witness: a report of L tables for a dataset of more than L
C8_Witness ==
    /\ ipc = "returned"
    /\ table_limit >= 1
    /\ Len(dataset) > table_limit
    /\ result.table_count = table_limit
    /\ requested = table_limit

\* C9: the i-th collected report, and the i-th entry of the aggregate
\* report, is the report of the i-th table of the dataset merged with the
\* i-th metadata.
C9_ReportsInTableOrder ==
    /\ \A i \in 1..Len(reports) :
          reports[i] = Update(Alone(i).report, dataset[i].extra)
    /\ ipc = "returned" =>
          /\ Len(result.tables) = Len(tables)
          /\ \A i \in 1..Len(result.tables) :
                result.tables[i] = Update(Alone(i).report, dataset[i].extra)

\* C9 witness: an aggregate report of three tables whose first and last
\* tables differ
C9_Witness ==
    /\ ipc = "returned"
    /\ Len(result.tables) = 3
    /\ dataset[1].table # dataset[3].table
    /\ result.tables[1].errors # result.tables[3].errors

\* C10: whatever the interleaving, a call that has ended has the locals and
\* the report (or the exception) of the inspection of its table alone.
C10_WorkersIndependent ==
    \A i \in 1..Len(tasks) :
        tasks[i].pc \in {"done", "raised"} =>
            tasks[i] = InspectTable(tables[i], checks, row_limit, error_limit)

\* C10 witness: two calls on tables with a duplicate row have both ended,
\* each with a duplicate-row error
C10_Witness ==
    /\ Len(tasks) >= 2
    /\ \A i \in 1..2 :
          /\ tasks[i].pc = "done"
          /\ \E k \in 1..Len(tasks[i].report.errors) :
                tasks[i].report.errors[k].code = "duplicate-row"

\* the exceptions the claims allow inspect to raise: configuration errors
\* and the exception of a table whose Opening phase failed
ProfileErrors == {"unsupported-profile"}

\* C11 (as claimed): inspect raises only configuration errors and
\* unrecovered table-open failures; when the Opening phase of every table
\* succeeds, a failure in the head or body phase of a table (here, while the
\* cells of a row are built) never makes inspect raise.
C11_BodyFailureContained ==
    (/\ ipc = "raised"
     /\ Len(dataset) >= 1
     /\ \A i \in 1..Len(dataset) : ~OpenFails(dataset[i].table, checks))
    => exc \in ConfigErrors \cup ProfileErrors

\* the codes of the selected checks of a context
ContextCodes(context) ==
    {FilterChecks(checks, None, context)[k].code :
        k \in 1..Len(FilterChecks(checks, None, context))}

\* C12 (as claimed): a table whose Opening failed and whose table checks
\* produced errors ends Closed with a report; only table checks contributed
\* errors, every error has row = None, and no row was streamed.
C12_FatalPathClosed ==
    \A i \in 1..Len(tasks) :
        (/\ tasks[i].pc \in {"done", "raised"}
         /\ OpenFails(tables[i], checks)
         /\ TableErrors(TableChecks, tables[i].exc) # <<>>)
        => /\ tasks[i].pc = "done"
           /\ tasks[i].next = 1
           /\ tasks[i].cells = <<>>
           /\ tasks[i].report.row_count = 0
           /\ \A k \in 1..Len(tasks[i].report.errors) :
                 /\ tasks[i].report.errors[k].row = NoneSeq
                 /\ tasks[i].report.errors[k].code \in ContextCodes("table")

\* no table has been taken from the profile, opened or inspected
NoTableWork ==
    /\ requested = 0
    /\ tables = <<>>
    /\ extras = <<>>
    /\ tasks = <<>>
    /\ reports = <<>>

\* C13: a configuration error (unknown profile, unrecognized policy shape,
\* unsatisfied dependency, check without executable) is raised before any
\* table work: an unknown profile or a bad policy always raises, and when
\* one is raised the dataset has not been iterated and no call of
\* __inspect_table exists.
C13_ConfigErrorsFirst ==
    /\ (ipc = "raised" /\ exc \in ConfigErrors \cup ProfileErrors) => NoTableWork
    /\ (ipc # "new" /\ PrepareChecks(config, catalog).error # "none")
          => Rejected /\ exc = PrepareChecks(config, catalog).error
    /\ (Constructed /\ ipc # "ready" /\ profile \notin Profiles)
          => ipc = "raised" /\ exc = "unsupported-profile"

\* C13 witness: a constructed inspector raised for an unknown profile
C13_Witness ==
    /\ ipc = "raised"
    /\ exc = "unsupported-profile"
    /\ checks # <<>>
    /\ Len(dataset) = 1
    /\ NoTableWork

\* the keys of a mapping policy that name no catalog check
UnknownKeys ==
    IF config.kind = "dict"
    THEN DOMAIN config.map \ {catalog[i].code : i \in 1..Len(catalog)}
    ELSE {}

\* a catalog entry has no executable in the checks module
MissingExecutable == \E i \in 1..Len(catalog) : ~catalog[i].func

\* C14 (as claimed): construction fails with an unsupported-check error
\* whenever a catalog check has no executable or a key of a mapping policy
\* names a code that is not in the catalog.
C14_UnknownCodeRejected ==
    (ipc # "new" /\ (MissingExecutable \/ UnknownKeys # {}))
        => Rejected /\ exc = "unsupported-check"

\* C14 (amended): construction fails with an unsupported-check error
\* exactly when a catalog check has no executable, whatever the policy; a
\* key of a mapping policy that names a code not in the catalog raises
\* nothing (with a supported catalog without dependencies every mapping
\* policy constructs).
C14_MissingExecutableRejected ==
    ipc # "new" =>
        /\ (Rejected /\ exc = "unsupported-check") <=> MissingExecutable
        /\ (catalog = CatalogFlat /\ config.kind = "dict") => Constructed

\* C14 witness: an inspector constructed from a mapping policy with a key
\* that names no catalog check
C14_Witness ==
    /\ ipc = "ready"
    /\ UnknownKeys # {}
    /\ \E k \in UnknownKeys : config.map[k]
    /\ \E k \in DOMAIN config.map \ UnknownKeys : config.map[k]
    /\ checks # <<>>

\* C15 (as claimed): with a known profile and a valid selection, inspect
\* returns an aggregate report whatever the number of tables the profile
\* yields, zero included (table-count 0, no tables, valid); stated for the
\* datasets none of whose tables fails to open.
C15_ReportForEveryCount ==
    (/\ Finished
     /\ Constructed
     /\ profile \in Profiles
     /\ \A i \in 1..Len(dataset) : ~OpenFails(dataset[i].table, checks))
    => /\ ipc = "returned"
       /\ result.table_count = Len(result.tables)
       /\ Len(dataset) = 0 =>
             /\ result.table_count = 0
             /\ result.tables = <<>>
             /\ result.valid

\* C16: in every aggregate report, valid is true iff every entry of tables
\* is valid, and table-count is the number of entries of tables.
C16_AggregateValid ==
    ipc = "returned" =>
        /\ result.valid <=>
              (\A i \in 1..Len(result.tables) : result.tables[i].valid)
        /\ result.table_count = Len(result.tables)

\* C16 witness: an aggregate report with a valid and an invalid table
C16_Witness ==
    /\ ipc = "returned"
    /\ ~result.valid
    /\ \E i, j \in 1..Len(result.tables) :
          result.tables[i].valid /\ ~result.tables[j].valid

\* the fields the columns of a table are aligned with: the fields of the
\* schema when a schema check is selected, else one None per header
FieldsOf(t) ==
    IF FilterChecks(checks, "schema", None) # <<>> THEN t.fields
    ELSE [k \in 1..Len(t.headers) |-> None]

\* C17: the column model, as built, has max(len(headers), len(fields))
\* columns numbered 1..n in order, each with the header and the field of its
\* position when there is one; when both lengths are equal (as when no
\* schema check is selected) it has that length and no absent header or
\* field.
C17_ColumnAlignment ==
    \A i \in 1..Len(tasks) :
        tasks[i].pc = "head" =>
            LET hs == tables[i].headers
                fs == FieldsOf(tables[i])
                cols == tasks[i].columns
            IN  /\ Len(cols) = Max(Len(hs), Len(fs))
                /\ \A k \in 1..Len(cols) :
                      /\ cols[k].number = k
                      /\ k <= Len(hs) => cols[k].header = hs[k]
                      /\ k > Len(hs) => cols[k].header = _FILLVALUE
                      /\ k <= Len(fs) => cols[k].field = fs[k]
                      /\ k > Len(fs) => cols[k].field = _FILLVALUE
                /\ Len(hs) = Len(fs) =>
                      /\ Len(cols) = Len(hs)
                      /\ \A k \in 1..Len(cols) :
                            /\ cols[k].header # _FILLVALUE
                            /\ cols[k].field # _FILLVALUE

\* C17 witness: the columns of a table with two headers and a schema of
\* three fields: three columns, the third without header
C17_Witness ==
    \E i \in 1..Len(tasks) :
        /\ tasks[i].pc = "head"
        /\ Len(tables[i].headers) = 2
        /\ Len(tasks[i].columns) = 3
        /\ tasks[i].columns[3].header = _FILLVALUE
        /\ tasks[i].columns[3].field = "age"

\* a column of the list lacks its header or its field
Lacking(columns) ==
    \E k \in 1..Len(columns) :
        columns[k].header = _FILLVALUE \/ columns[k].field = _FILLVALUE

\* the call for table i read a row that the row limit did not cut
RowTaken(i) ==
    /\ tasks[i].pc \in {"body", "compose", "done", "raised"}
    /\ ~tasks[i].fatal_error
    /\ tasks[i].row_number >= 1
    /\ ~RowLimitReached(tasks[i].row_number, row_limit)

\* C19: a call whose column list, at the body phase, holds a column without
\* header or without field builds the cells of each row it reads without
\* raising.
C19_AbsentAttributeTolerated ==
    \A i \in 1..Len(tasks) :
        (RowTaken(i) /\ Lacking(tasks[i].columns))
            => ~(tasks[i].pc = "raised" /\ tasks[i].exc = "KeyError")

\* C18: the cells of every row read are max(len(columns), len(row)) cells
\* numbered 1..n; a cell past the end of the row has no value, a cell past
\* the end of the columns has a value and neither header nor field, and
\* every other cell has the value of the row and the header and field of
\* its column.
C18_CellAlignment ==
    \A i \in 1..Len(tasks) :
        RowTaken(i) =>
            LET row == tables[i].rows[tasks[i].row_number]
                cols == tasks[i].columns
                cells == tasks[i].cells
            IN  /\ Len(cells) = Max(Len(cols), Len(row))
                /\ \A k \in 1..Len(cells) :
                      /\ cells[k].col_number = k
                      /\ cells[k].row_number = tasks[i].row_number
                      /\ cells[k].value =
                            IF k <= Len(row) THEN row[k] ELSE _FILLVALUE
                      /\ cells[k].header =
                            IF k <= Len(cols) THEN cols[k].header
                            ELSE _FILLVALUE
                      /\ cells[k].field =
                            IF k <= Len(cols) THEN cols[k].field
                            ELSE _FILLVALUE

HeadDone(i) ==
    /\ tasks[i].pc \in {"body", "compose", "done", "raised"}
    /\ ~tasks[i].fatal_error

\* the elements of a sequence
Range(s) == {s[k] : k \in 1..Len(s)}

\* C21: the head checks are invoked once each in resolved order; the first
\* is passed the column model as built and each later one the list as the
\* check before it left it, so a column a check removed is in no later
\* check's list; the cells of every row built in the body phase are aligned
\* with the list as the last head check left it.
C21_SharedColumnList ==
    \A i \in 1..Len(tasks) :
        HeadDone(i) =>
            LET w == tasks[i]
                hc == FilterChecks(checks, None, "head")
                calls == w.headCalls
                After(k) == IF k < Len(calls) THEN calls[k + 1].columns
                            ELSE w.columns
            IN  /\ Len(calls) = Len(hc)
                /\ \A k \in 1..Len(calls) :
                      /\ calls[k].code = hc[k].code
                      /\ After(k) = HeadFunc(calls[k].code, calls[k].columns).columns
                      /\ \A m \in (k + 1)..Len(calls) :
                            (Range(calls[k].columns) \ Range(After(k)))
                               \cap Range(calls[m].columns) = {}
                /\ calls # <<>> =>
                      calls[1].columns =
                          AlignColumns(tables[i].headers, FieldsOf(tables[i]))
                /\ (RowTaken(i) /\ w.pc # "raised") =>
                      LET row == tables[i].rows[w.row_number]
                      IN  /\ Len(w.cells) = Max(Len(w.columns), Len(row))
                          /\ \A k \in 1..Len(w.columns) :
                                /\ w.cells[k].header = w.columns[k].header
                                /\ w.cells[k].field = w.columns[k].field

\* C21 witness: the first of two head checks removed a column the second
\* would have reported, and the one cell of a short row was aligned with the
\* one column left of two
C21_Witness ==
    \E i \in 1..Len(tasks) :
        /\ HeadDone(i) /\ RowTaken(i) /\ tasks[i].pc = "done"
        /\ Len(tasks[i].headCalls) = 2
        /\ Len(tasks[i].headCalls[1].columns) = 2
        /\ Len(tasks[i].headCalls[2].columns) = 1
        /\ HeadFunc(tasks[i].headCalls[2].code,
                    tasks[i].headCalls[1].columns).errors # <<>>
        /\ Len(tasks[i].columns) = 1
        /\ Len(tasks[i].cells) = 1

\* the error list of a call as collected, before the cut of the report
Collected(w) == IF w.pc = "done" THEN w.collected ELSE w.errors

\* the invocations of body checks the call made for the row at position r
CallsOfRow(w, r) ==
    LET OfRow(c) == c.row_number = r
    IN  SelectSeq(w.bodyCalls, OfRow)

\* the sum of the errors the invocations yielded
RECURSIVE Made(_)
Made(calls) == IF calls = <<>> THEN 0 ELSE Head(calls).made + Made(Tail(calls))

\* the length of the error list when the checks of row r start
ErrorsBefore(w, r) ==
    LET OfHead(e) == e.row = NoneSeq
    IN  IF r > 1 THEN w.rowErrors[r - 1]
        ELSE Len(SelectSeq(Collected(w), OfHead))

\* C22: for every row checked, the body checks invoked are a prefix of the
\* resolved body checks, none is invoked with an empty cell list, and the
\* prefix is proper only when the cell list was empty after alignment or
\* after the last check invoked; the row adds the errors its invocations
\* yielded and no other; and only the end of the stream, the row limit or
\* the error limit end the body phase.
C22_EmptyCellsSkipRow ==
    \A i \in 1..Len(tasks) :
        LET w == tasks[i]
            bc == FilterChecks(checks, None, "body")
            n == Len(w.rowErrors)
        IN  /\ \A r \in 1..n :
                  LET cr == CallsOfRow(w, r)
                      cells == AlignCells(w.columns, tables[i].rows[r], r)
                      Left(k) == IF k = 0 THEN cells ELSE cr[k].left
                  IN  /\ Len(cr) <= Len(bc)
                      /\ \A k \in 1..Len(cr) :
                            /\ cr[k].code = bc[k].code
                            /\ cr[k].cells = Left(k - 1)
                            /\ cr[k].cells # <<>>
                      /\ Len(cr) < Len(bc) => Left(Len(cr)) = <<>>
                      /\ w.rowErrors[r] = ErrorsBefore(w, r) + Made(cr)
            /\ Len(w.bodyCalls) = Made([r \in 1..n |-> [made |-> Len(CallsOfRow(w, r))]])
            /\ (w.pc \in {"compose", "done"} /\ ~w.fatal_error) =>
                  \/ n = Len(tables[i].rows)
                  \/ RowLimitReached(n + 1, row_limit)
                  \/ n >= 1 /\ w.rowErrors[n] >= error_limit

\* C22 witness: a check emptied the cell list of the second row while a
\* body check was still to come, which was not invoked, and the third row
\* was checked
C22_Witness ==
    \E i \in 1..Len(tasks) :
        /\ tasks[i].pc = "done"
        /\ Len(tasks[i].rowErrors) = 3
        /\ Len(CallsOfRow(tasks[i], 2)) < Len(FilterChecks(checks, None, "body"))
        /\ CallsOfRow(tasks[i], 2)[Len(CallsOfRow(tasks[i], 2))].left = <<>>
        /\ Len(CallsOfRow(tasks[i], 1)) = Len(FilterChecks(checks, None, "body"))
        /\ Len(CallsOfRow(tasks[i], 3)) = Len(FilterChecks(checks, None, "body"))

\* the invocations of the check among the first n body-check invocations
EarlierCalls(w, n, code) ==
    LET Same(c) == c.code = code
    IN  SelectSeq(SubSeq(w.bodyCalls, 1, n), Same)

\* C23: in every call, a body check's first invocation is passed the empty
\* mapping and each later one the mapping as the same check's invocation
\* before it, in the same call, left it; the states of the call hold, per
\* check invoked, the mapping its last invocation left.
C23_CheckStatePrivate ==
    \A i \in 1..Len(tasks) :
        LET w == tasks[i]
        IN  /\ \A k \in 1..Len(w.bodyCalls) :
                  LET before == EarlierCalls(w, k - 1, w.bodyCalls[k].code)
                  IN  w.bodyCalls[k].state =
                          IF before = <<>> THEN {}
                          ELSE before[Len(before)].out
            /\ DOMAIN w.states = {w.bodyCalls[k].code : k \in 1..Len(w.bodyCalls)}
            /\ \A c \in DOMAIN w.states :
                  LET all == EarlierCalls(w, Len(w.bodyCalls), c)
                  IN  w.states[c] = all[Len(all)].out

\* C23 witness: two calls of one inspect have each invoked duplicate-row
\* twice, first with the empty mapping and then with the mapping holding the
\* first row
C23_Witness ==
    \E i, j \in 1..Len(tasks) :
        /\ i # j
        /\ \A t \in {i, j} :
              LET dup == EarlierCalls(tasks[t], Len(tasks[t].bodyCalls),
                                      "duplicate-row")
              IN  /\ Len(dup) >= 2
                  /\ dup[1].state = {} /\ dup[1].out # {}
                  /\ dup[2].state = dup[1].out

\* the position of the check with the code in the resolved list
IndexOf(code) == CHOOSE k \in 1..Len(checks) : checks[k].code = code

\* C24: in the report of a table that was opened, every error has the code
\* of a selected head or body check; an error of a head check has no row and
\* an error of a body check has the raw row of its position; head errors
\* precede body errors, head errors are in resolved check order, and body
\* errors are in order of row position and, within a row, of resolved check
\* order.
C24_ErrorsInProductionOrder ==
    \A i \in 1..Len(tasks) :
        (tasks[i].pc = "done" /\ ~tasks[i].fatal_error) =>
            LET es == tasks[i].report.errors
                IsHead(e) == e.code \in ContextCodes("head")
                IsBody(e) == e.code \in ContextCodes("body")
            IN  /\ \A k \in 1..Len(es) :
                      /\ IsHead(es[k]) \/ IsBody(es[k])
                      /\ IsHead(es[k]) => es[k].row = NoneSeq
                      /\ IsBody(es[k]) =>
                            /\ es[k].rowNumber \in 1..Len(tables[i].rows)
                            /\ es[k].row = Some(tables[i].rows[es[k].rowNumber])
                /\ \A k, m \in 1..Len(es) :
                      k < m =>
                          /\ ~(IsBody(es[k]) /\ IsHead(es[m]))
                          /\ (IsHead(es[k]) /\ IsHead(es[m])) =>
                                IndexOf(es[k].code) <= IndexOf(es[m].code)
                          /\ (IsBody(es[k]) /\ IsBody(es[m])) =>
                                \/ es[k].rowNumber < es[m].rowNumber
                                \/ /\ es[k].rowNumber = es[m].rowNumber
                                   /\ IndexOf(es[k].code) <= IndexOf(es[m].code)

\* C24 witness: a report with a head error followed by the errors of two
\* body checks on successive rows
C24_Witness ==
    \E i \in 1..Len(tasks) :
        /\ tasks[i].pc = "done"
        /\ Len(tasks[i].report.errors) = 3
        /\ tasks[i].report.errors[1].code \in ContextCodes("head")
        /\ tasks[i].report.errors[1].row = NoneSeq
        /\ tasks[i].report.errors[2].code \in ContextCodes("body")
        /\ tasks[i].report.errors[3].code \in ContextCodes("body")
        /\ tasks[i].report.errors[2].code # tasks[i].report.errors[3].code
        /\ tasks[i].report.errors[2].rowNumber < tasks[i].report.errors[3].rowNumber

\* C25: a row is checked after another only if the error list was shorter
\* than error_limit when the checks of that other row had finished; once it
\* is not, the call has left the row loop: no further row is read and no
\* body check is invoked again.
C25_ErrorLimitStopsStream ==
    \A i \in 1..Len(tasks) :
        LET w == tasks[i]
            n == Len(w.rowErrors)
        IN  /\ \A r \in 1..(n - 1) : w.rowErrors[r] < error_limit
            /\ (n >= 1 /\ w.rowErrors[n] >= error_limit) =>
                  /\ w.pc \in {"compose", "done"}
                  /\ w.row_number = n
                  /\ w.next = n + 1
                  /\ ~w.streamOpen
                  /\ \A k \in 1..Len(w.bodyCalls) : w.bodyCalls[k].row_number <= n

\* C25 witness: the second of three rows took the error list to the limit
\* and the third row was neither read nor checked
C25_Witness ==
    \E i \in 1..Len(tasks) :
        /\ tasks[i].pc = "done"
        /\ Len(tables[i].rows) = 3
        /\ ~RowLimitReached(3, row_limit)
        /\ Len(tasks[i].rowErrors) = 2
        /\ tasks[i].rowErrors[1] < error_limit
        /\ tasks[i].rowErrors[2] >= error_limit
        /\ tasks[i].report.row_count = 2
        /\ \A k \in 1..Len(tasks[i].bodyCalls) : tasks[i].bodyCalls[k].row_number <= 2

\* the selected checks of the schema category
SchemaChecks == FilterChecks(checks, "schema", None)

\* C26: a call holds a schema only if a schema check is selected; with none
\* selected, a table whose schema cannot be obtained is not fatal and the
\* column model has one column per header, each with the field None; with
\* one selected, that table is fatal.
C26_SchemaOnlyIfSelected ==
    \A i \in 1..Len(tasks) :
        LET w == tasks[i]
            t == tables[i]
        IN  w.pc # "open" =>
              /\ w.schema # NoneSeq => SchemaChecks # <<>>
              /\ t.failAt = "schema" => (w.fatal_error <=> SchemaChecks # <<>>)
              /\ (SchemaChecks = <<>> /\ w.pc = "head") =>
                    w.columns = [k \in 1..Len(t.headers) |->
                                    [number |-> k, header |-> t.headers[k],
                                     field |-> None]]

\* C26 witness: with no schema check selected, the table whose schema
\* cannot be obtained was inspected to the end and its row checked
C26_Witness ==
    \E i \in 1..Len(tasks) :
        /\ SchemaChecks = <<>>
        /\ tables[i].failAt = "schema"
        /\ tasks[i].pc = "done"
        /\ ~tasks[i].fatal_error
        /\ tasks[i].schema = NoneSeq
        /\ tasks[i].report.row_count = 1
        /\ tasks[i].bodyCalls # <<>>
        /\ \A k \in 1..Len(tasks[i].columns) : tasks[i].columns[k].field = None

\* C27: when a call has ended, by a report or by an exception, the stream
\* it opened is closed.
C27_StreamReleased ==
    \A i \in 1..Len(tasks) :
        tasks[i].pc \in {"done", "raised"} => ~tasks[i].streamOpen

\* C28: with streams and datasets that may never end, every inspect call
\* eventually returns, having taken at most table_limit tables, and every
\* table inspection of it has ended with a report, having read at most
\* row_limit rows and checked fewer than row_limit of them.
C28_TerminatesUnderLimits ==
    <>(/\ ipc = "returned"
       /\ Len(tables) <= table_limit
       /\ \A i \in 1..Len(tasks) :
             /\ tasks[i].pc = "done"
             /\ tasks[i].row_number <= row_limit
             /\ Len(tasks[i].rowErrors) < row_limit)

\* C29: a report says valid exactly when the call collected no error, and
\* its error-count is the length of its error list and at most error_limit.
C29_ValidIffNoError ==
    \A i \in 1..Len(tasks) :
        tasks[i].pc = "done" =>
            /\ tasks[i].report.valid <=> (tasks[i].collected = <<>>)
            /\ tasks[i].report.error_count = Len(tasks[i].report.errors)
            /\ tasks[i].report.error_count <= error_limit

====
